---- MODULE Spec2Model ----
(***************************************************************************)
(* Network Utilization Agent: the warehouse utilization classifier, the    *)
(* greedy reallocation planner (src/src/data_processor.py) and the         *)
(* five-node LangGraph workflow that sequences them (src/src/agent.py).    *)
(*                                                                         *)
(* Utilization percentages are kept as integers in hundredths of a percent *)
(* (85.00% is 8500) inside a small tagged record, so that the values that  *)
(* pandas produces for a zero capacity (inf, NaN) are represented too.     *)
(***************************************************************************)
EXTENDS Integers, Sequences, FiniteSets, TLC

VARIABLES
    excel,          \* the sheet behind excel_path: [has_util_column, rows]
    has_email_gen,  \* self.email_gen is not None (a sender e-mail was configured)
    df,             \* processor.df: [loaded, frame], loaded = FALSE for None
    state,          \* the AgentState held in the graph's channels
    pc,             \* the node the graph runs next, or "END"
    invoked,        \* history: the nodes invoked so far, in order
    failures,       \* history: the nodes whose except clause ran, in order
    llm_calls,      \* history: the samples handed to chain.invoke
    send_calls,     \* history: the calls of email_gen.send_email and what they returned
    reads           \* history: the number of pd.read_excel calls

vars == <<excel, has_email_gen, df, state, pc, invoked, failures, llm_calls, send_calls,
          reads>>

(***************************************************************************)
(* Bounds of the model.                                                    *)
(***************************************************************************)
MaxFacilities == 3

\* Rows of a sheet in the runs checked for termination (LiveSpec).
MaxLiveFacilities == 2

\* Regions of a sheet in the runs with several regions (WideSpec).
MaxRegions == 3

(***************************************************************************)
(* config/settings.py                                                      *)
(***************************************************************************)
UTILIZATION_THRESHOLD == 85

\* The threshold in the unit of the utilization values (hundredths).
ThresholdHundredths == UTILIZATION_THRESHOLD * 100

(***************************************************************************)
(* Generic helpers.                                                        *)
(***************************************************************************)
Min(a, b) == IF a <= b THEN a ELSE b

Range(s) == {s[i] : i \in 1..Len(s)}

\* s without the elements that already occur earlier in it
\* (pandas Series.unique(): values in order of first appearance).
RECURSIVE Unique(_)
Unique(s) ==
    IF s = <<>> THEN <<>>
    ELSE LET front == Unique(SubSeq(s, 1, Len(s) - 1))
             last  == s[Len(s)]
         IN IF last \in Range(front) THEN front ELSE Append(front, last)

\* The sequence of f(s[i]).
MapSeq(s, f(_)) == [i \in 1..Len(s) |-> f(s[i])]

\* Python int(x) of the quotient n/d for d > 0: truncation towards zero.
IntTrunc(n, d) == IF n >= 0 THEN n \div d ELSE -((-n) \div d)

\* n/d rounded to the nearest integer, ties to even, for n >= 0 and d > 0.
RoundHalfEven(n, d) ==
    LET q == n \div d
        r == n % d
    IN IF 2 * r < d THEN q
       ELSE IF 2 * r > d THEN q + 1
       ELSE IF q % 2 = 0 THEN q ELSE q + 1

(***************************************************************************)
(* Utilization values.                                                     *)
(***************************************************************************)
Num(v) == [k |-> "num", v |-> v]
PosInf == [k |-> "inf", v |-> 1]
NaN    == [k |-> "nan", v |-> 0]
\* The cell of a sheet that has no Utilization_Percentage column.
Absent == [k |-> "absent", v |-> 0]

\* u > t and u < t for a float u and a finite threshold t (in hundredths).
UtilGT(u, t) == \/ u.k = "num" /\ u.v > t
                \/ u.k = "inf" /\ u.v > 0
UtilLT(u, t) == \/ u.k = "num" /\ u.v < t
                \/ u.k = "inf" /\ u.v < 0

\* (Current_Pallets / Total_Capacity_Pallets * 100).round(2)
DerivedUtilization(load, cap) ==
    IF cap = 0 THEN (IF load = 0 THEN NaN ELSE PosInf)
    ELSE IF cap > 0 THEN Num(RoundHalfEven(load * 10000, cap))
    ELSE Num(-RoundHalfEven(load * 10000, -cap))

(***************************************************************************)
(* WarehouseDataProcessor.load_data: the frame read from the sheet, with   *)
(* the utilization column derived when the sheet does not carry one.       *)
(***************************************************************************)
LoadData(sheet) ==
    IF sheet.has_util_column THEN sheet.rows
    ELSE [i \in 1..Len(sheet.rows) |->
            [sheet.rows[i] EXCEPT !.Utilization_Percentage =
                DerivedUtilization(sheet.rows[i].Current_Pallets,
                                   sheet.rows[i].Total_Capacity_Pallets)]]

(***************************************************************************)
(* WarehouseDataProcessor.identify_utilization_issues                      *)
(***************************************************************************)
IsOverutilized_nonstrict(w) ==
    ~UtilLT(w.Utilization_Percentage, ThresholdHundredths) /\ w.Utilization_Percentage.k # "nan"

IsOverutilized(w) == UtilGT(w.Utilization_Percentage, ThresholdHundredths)

IsUnderutilized(w) == UtilLT(w.Utilization_Percentage, ThresholdHundredths)

Overutilized_reversed(frame) ==
    LET rows == SelectSeq(frame, IsOverutilized)
    IN [i \in 1..Len(rows) |-> rows[Len(rows) + 1 - i]]

Overutilized(frame) == SelectSeq(frame, IsOverutilized)

Underutilized(frame) == SelectSeq(frame, IsUnderutilized)

(***************************************************************************)
(* WarehouseDataProcessor.group_by_region: an insertion-ordered dict,      *)
(* kept as a sequence of (region, rows) entries.                           *)
(***************************************************************************)
RegionOf(w) == w.Region

InRegion(frame, region) == SelectSeq(frame, LAMBDA w : w.Region = region)

GroupByRegion_reversed(frame) ==
    LET rs == Unique(MapSeq(frame, RegionOf))
    IN [i \in 1..Len(rs) |-> [region |-> rs[Len(rs) + 1 - i],
                              rows   |-> InRegion(frame, rs[Len(rs) + 1 - i])]]

GroupByRegion(frame) ==
    LET rs == Unique(MapSeq(frame, RegionOf))
    IN [i \in 1..Len(rs) |-> [region |-> rs[i], rows |-> InRegion(frame, rs[i])]]

(***************************************************************************)
(* WarehouseDataProcessor.calculate_reallocation                           *)
(***************************************************************************)
\* int(Total_Capacity_Pallets * (UTILIZATION_THRESHOLD / 100))
TargetPallets_rounded_up(cap) == (cap * UTILIZATION_THRESHOLD + 99) \div 100

TargetPallets(cap) == IntTrunc(cap * UTILIZATION_THRESHOLD, 100)

ExcessPallets(over_wh) ==
    over_wh.Current_Pallets - TargetPallets(over_wh.Total_Capacity_Pallets)

AvailableSpace_capacity(under_wh) ==
    under_wh.Total_Capacity_Pallets - under_wh.Current_Pallets

AvailableSpace(under_wh) ==
    TargetPallets(under_wh.Total_Capacity_Pallets) - under_wh.Current_Pallets

PalletsToMove_available(remaining_excess, available_space) == available_space

PalletsToMove_remaining(remaining_excess, available_space) == remaining_excess

PalletsToMove(remaining_excess, available_space) ==
    Min(remaining_excess, available_space)

\* underutilized[underutilized['Region'] == region]
UnderInRegion_any(underutilized, region) == underutilized

UnderInRegion(underutilized, region) == InRegion(underutilized, region)

\* The index the inner loop goes to after a full destination at index j of n:
\* `continue` moves on to the next destination.
AfterFullDestination_break(j, n) == n + 1

AfterFullDestination(j, n) == j + 1

Recommendation(region, over_wh, under_wh, pallets) ==
    [region            |-> region,
     from_warehouse    |-> over_wh.Warehouse_ID,
     to_warehouse      |-> under_wh.Warehouse_ID,
     pallets_to_move   |-> pallets,
     from_current_util |-> over_wh.Utilization_Percentage,
     to_current_util   |-> under_wh.Utilization_Percentage,
     branch_manager    |-> over_wh.Branch_Manager_Name,
     branch_email      |-> over_wh.Branch_Manager_Email]

\* for _, under_wh in under_in_region.iterrows(): ... from index j on
RECURSIVE InnerLoop(_, _, _, _, _)
InnerLoop(region, over_wh, under_in_region, j, remaining_excess) ==
    IF j > Len(under_in_region) \/ remaining_excess <= 0 THEN <<>>
    ELSE LET under_wh        == under_in_region[j]
             available_space == AvailableSpace(under_wh)
         IN IF available_space <= 0
            THEN InnerLoop(region, over_wh, under_in_region,
                           AfterFullDestination(j, Len(under_in_region)),
                           remaining_excess)
            ELSE LET pallets_to_move == PalletsToMove(remaining_excess, available_space)
                 IN <<Recommendation(region, over_wh, under_wh, pallets_to_move)>>
                    \o InnerLoop(region, over_wh, under_in_region, j + 1,
                                 remaining_excess - pallets_to_move)

\* The recommendations of one overutilized warehouse.
ForOverWarehouse(region, over_wh, under_in_region) ==
    IF ExcessPallets(over_wh) <= 0 THEN <<>>
    ELSE InnerLoop(region, over_wh, under_in_region, 1, ExcessPallets(over_wh))

\* for _, over_wh in over_in_region.iterrows(): ... from index i on
RECURSIVE OuterLoop(_, _, _, _)
OuterLoop(region, over_in_region, under_in_region, i) ==
    IF i > Len(over_in_region) THEN <<>>
    ELSE ForOverWarehouse(region, over_in_region[i], under_in_region)
         \o OuterLoop(region, over_in_region, under_in_region, i + 1)

\* The body of `for region in overutilized['Region'].unique()`.
ForRegion(overutilized, underutilized, region) ==
    LET over_in_region  == InRegion(overutilized, region)
        under_in_region == UnderInRegion(underutilized, region)
    IN IF under_in_region = <<>> THEN <<>>
       ELSE OuterLoop(region, over_in_region, under_in_region, 1)

RECURSIVE RegionLoop(_, _, _, _)
RegionLoop(overutilized, underutilized, regions, k) ==
    IF k > Len(regions) THEN <<>>
    ELSE ForRegion(overutilized, underutilized, regions[k])
         \o RegionLoop(overutilized, underutilized, regions, k + 1)

CalculateReallocation_reversed_regions(overutilized, underutilized) ==
    LET rs == Unique(MapSeq(overutilized, RegionOf))
    IN RegionLoop(overutilized, underutilized,
                  [i \in 1..Len(rs) |-> rs[Len(rs) + 1 - i]], 1)

CalculateReallocation(overutilized, underutilized) ==
    RegionLoop(overutilized, underutilized,
               Unique(MapSeq(overutilized, RegionOf)), 1)

(***************************************************************************)
(* The inputs of a run.                                                    *)
(***************************************************************************)
\* (capacity, load, region) of a row of a sheet without a utilization
\* column. Region "X" holds every kind of warehouse, region "Y" one
\* overutilized and one underutilized kind.
RowChoices ==
    { <<100, 95, "X">>,    \* 95%: over, excess 10
      <<100, 93, "X">>,    \* 93%: over, excess 8
      <<100, 120, "X">>,   \* 120%: loaded beyond capacity, excess 35
      <<100, 50, "X">>,    \* 50%: under, available 35
      <<100, 75, "X">>,    \* 75%: under, available 10
      <<100, 85, "X">>,    \* exactly at the threshold
      <<10, 8, "X">>,      \* 80%: under, available int(8.5) - 8 = 0
      <<0, 5, "X">>,       \* zero capacity: pandas yields inf
      <<100, 95, "Y">>,
      <<100, 50, "Y">> }

\* (capacity, load, region, utilization) of a row of a sheet that carries
\* its own Utilization_Percentage column; load_data takes it as it is.
SuppliedRowChoices ==
    { <<100, 95, "X", 9500>>,
      <<100, 50, "X", 5000>>,
      <<100, 50, "X", 9000>>,     \* listed as over, load below the target
      <<100, 95, "X", 5000>> }    \* listed as under, load above the target

\* Every warehouse has an id, a manager and a manager e-mail of its own,
\* numbered by its row.
Row(i, region, cap, load, util) ==
    [Warehouse_ID           |-> i,
     Region                 |-> region,
     Total_Capacity_Pallets |-> cap,
     Current_Pallets        |-> load,
     Utilization_Percentage |-> util,
     Branch_Manager_Name    |-> i,
     Branch_Manager_Email   |-> i]

SheetsUpTo(max_rows) ==
    UNION { { [has_util_column |-> FALSE,
               rows |-> [i \in 1..n |-> Row(i, f[i][3], f[i][1], f[i][2], Absent)]]
              : f \in [1..n -> RowChoices] }
            \cup
            { [has_util_column |-> TRUE,
               rows |-> [i \in 1..n |-> Row(i, f[i][3], f[i][1], f[i][2], Num(f[i][4]))]]
              : f \in [1..n -> SuppliedRowChoices] }
          : n \in 0..max_rows }

(***************************************************************************)
(* Sheets with several regions: a sheet is made of one block of rows per   *)
(* region, for up to MaxRegions different regions in any order, laid out   *)
(* block after block or with all overutilized rows before the others.      *)
(***************************************************************************)
RegionNames == <<"X", "Y", "Z", "W">>

WideRegions == {RegionNames[i] : i \in 1..MaxRegions}

BlockKinds == {"split", "two_over", "over_only"}

Layouts == {"blocks", "overs_first"}

\* The (capacity, load, region) rows of a block.
BlockRows(region, kind) ==
    CASE kind = "split"     -> \* one source of excess 35, destinations of 10 and 35
             <<(<<100, 120, region>>), (<<100, 75, region>>), (<<100, 50, region>>)>>
      [] kind = "two_over"  -> \* two sources of excess 8, one destination of 10
             <<(<<100, 93, region>>), (<<100, 93, region>>), (<<100, 75, region>>)>>
      [] kind = "over_only" -> \* a source without any destination in its region
             <<(<<100, 95, region>>)>>

RECURSIVE ConcatBlocks(_, _, _)
ConcatBlocks(regions, kinds, n) ==
    IF n = 0 THEN <<>>
    ELSE ConcatBlocks(regions, kinds, n - 1) \o BlockRows(regions[n], kinds[n])

LayOut(triples, layout) ==
    IF layout = "blocks" THEN triples
    ELSE SelectSeq(triples, LAMBDA t : t[2] * 100 > t[1] * UTILIZATION_THRESHOLD)
         \o SelectSeq(triples, LAMBDA t : t[2] * 100 <= t[1] * UTILIZATION_THRESHOLD)

WideSheet(regions, kinds, layout) ==
    LET triples == LayOut(ConcatBlocks(regions, kinds, Len(regions)), layout)
    IN [has_util_column |-> FALSE,
        rows |-> [i \in 1..Len(triples) |->
                    Row(i, triples[i][3], triples[i][1], triples[i][2], Absent)]]

WideSheets ==
    UNION { { WideSheet(regions, kinds, layout) :
                regions \in {f \in [1..n -> WideRegions] :
                               \A i, j \in 1..n : f[i] = f[j] => i = j},
                kinds \in [1..n -> BlockKinds],
                layout \in Layouts }
          : n \in 0..MaxRegions }

\* What email_gen.send_email returns: it catches every exception itself.
SendOutcomes == {"sent", "failed"}

(***************************************************************************)
(* The graph: AgentState, its channels and its edges.                      *)
(***************************************************************************)
Nodes == <<"monitor", "detect", "analyze", "generate_email", "send_email">>

NextNode_skip(node) ==
    CASE node = "monitor"        -> "detect"
      [] node = "detect"         -> "generate_email"
      [] node = "analyze"        -> "generate_email"
      [] node = "generate_email" -> "send_email"
      [] node = "send_email"     -> "END"

NextNode(node) ==
    CASE node = "monitor"        -> "detect"
      [] node = "detect"         -> "analyze"
      [] node = "analyze"        -> "generate_email"
      [] node = "generate_email" -> "send_email"
      [] node = "send_email"     -> "END"

\* Every node body is one try/except Exception whose handler returns the
\* state, so the graph follows the node's edge after a failure as well.
AfterNode_raise(node, failed) == IF failed THEN "ABORTED" ELSE NextNode(node)

AfterNode(node, failed) == NextNode(node)

Status(text, args) == [text |-> text, args |-> args]

initial_state ==
    [warehouse_data           |-> <<>>,
     overutilized_warehouses  |-> <<>>,
     underutilized_warehouses |-> <<>>,
     regions                  |-> <<>>,
     recommendations          |-> <<>>,
     emails_generated         |-> <<>>,
     emails_sent              |-> <<>>,
     status                   |-> Status("Starting", <<>>),
     error                    |-> ""]

\* Annotated[list, operator.add]: the channel's reducer.
operator_add(old, update) == old \o update

\* The channels after a node returned the dict `out`: a plain key takes the
\* returned value, a key annotated with a reducer is combined with it.
ApplyWrites(channels, out) ==
    [out EXCEPT
        !.recommendations  = operator_add(channels.recommendations, out.recommendations),
        !.emails_generated = operator_add(channels.emails_generated, out.emails_generated),
        !.emails_sent      = operator_add(channels.emails_sent, out.emails_sent)]

ErrorMessage(node, cause) ==
    CASE node = "monitor"        -> "Monitoring error: Error loading data"
      [] node = "detect"         -> "Detection error: Error loading data"
      [] node = "analyze"        -> IF cause = "KeyError" THEN "Analysis error: 'Region'"
                                    ELSE "Analysis error: insight generation failed"
      [] node = "generate_email" -> "Email generation error: rendering failed"
      [] node = "send_email"     -> "Email sending error"

ErrorStatus(node) ==
    CASE node = "monitor"        -> Status("Error in monitoring", <<>>)
      [] node = "detect"         -> Status("Error in detection", <<>>)
      [] node = "analyze"        -> Status("Error in analysis", <<>>)
      [] node = "generate_email" -> Status("Error in email generation", <<>>)
      [] node = "send_email"     -> Status("Error in email sending", <<>>)

\* except Exception as e: state["error"] = ...; state["status"] = ...; return state
Except_keep_first(s, node, cause) ==
    [s EXCEPT !.error  = IF s.error = "" THEN ErrorMessage(node, cause) ELSE s.error,
              !.status = ErrorStatus(node)]

Except(s, node, cause) ==
    [s EXCEPT !.error  = ErrorMessage(node, cause),
              !.status = ErrorStatus(node)]

\* The bookkeeping common to all nodes: the channels take the node's output
\* and the graph moves along the node's edge.
Finish(node, out, failed) ==
    /\ state'    = ApplyWrites(state, out)
    /\ pc'       = AfterNode(node, failed)
    /\ invoked'  = Append(invoked, node)
    /\ failures' = IF failed THEN Append(failures, node) ELSE failures

InitFrom(sheets) ==
    /\ excel \in sheets
    /\ has_email_gen \in BOOLEAN
    /\ df = [loaded |-> FALSE, frame |-> <<>>]
    /\ state = initial_state
    /\ pc = "monitor"
    /\ invoked = <<>>
    /\ failures = <<>>
    /\ llm_calls = <<>>
    /\ send_calls = <<>>
    /\ reads = 0

InitWith(max_rows) == InitFrom(SheetsUpTo(max_rows))

Init == InitWith(MaxFacilities)

WideInit == InitFrom(WideSheets)

LiveInit == InitWith(MaxLiveFacilities)

(***************************************************************************)
(* monitor_node                                                            *)
(***************************************************************************)
monitor_node ==
    /\ pc = "monitor"
    /\ \E read_ok \in BOOLEAN :
          IF read_ok
          THEN /\ df' = [loaded |-> TRUE, frame |-> LoadData(excel)]
               /\ Finish("monitor",
                         [state EXCEPT !.warehouse_data = LoadData(excel),
                                       !.status = Status("Monitoring complete", <<>>)],
                         FALSE)
          ELSE /\ df' = df
               /\ Finish("monitor", Except(state, "monitor", "load"), TRUE)
    /\ reads' = reads + 1
    /\ UNCHANGED <<excel, has_email_gen, llm_calls, send_calls>>

(***************************************************************************)
(* detect_node: identify_utilization_issues and group_by_region work on    *)
(* processor.df and load it themselves when it is still None.              *)
(***************************************************************************)
\* detect_node works on processor.df (frame), not on state["warehouse_data"].
DetectOutput_from_state(s, frame) ==
    [s EXCEPT !.overutilized_warehouses  = Overutilized(s.warehouse_data),
              !.underutilized_warehouses = Underutilized(s.warehouse_data),
              !.regions                  = GroupByRegion(s.warehouse_data),
              !.status = Status("Detection complete",
                                <<Len(Overutilized(s.warehouse_data)),
                                  Len(Underutilized(s.warehouse_data))>>)]

DetectOutput(s, frame) ==
    [s EXCEPT !.overutilized_warehouses  = Overutilized(frame),
              !.underutilized_warehouses = Underutilized(frame),
              !.regions                  = GroupByRegion(frame),
              !.status = Status("Detection complete",
                                <<Len(Overutilized(frame)), Len(Underutilized(frame))>>)]

detect_node ==
    /\ pc = "detect"
    /\ \E read_ok \in BOOLEAN :
          IF df.loaded
          THEN /\ read_ok
               /\ df' = df
               /\ Finish("detect", DetectOutput(state, df.frame), FALSE)
          ELSE IF read_ok
               THEN /\ df' = [loaded |-> TRUE, frame |-> LoadData(excel)]
                    /\ Finish("detect", DetectOutput(state, LoadData(excel)), FALSE)
               ELSE /\ df' = df
                    /\ Finish("detect", Except(state, "detect", "load"), TRUE)
    /\ reads' = IF df.loaded THEN reads ELSE reads + 1
    /\ UNCHANGED <<excel, has_email_gen, llm_calls, send_calls>>

(***************************************************************************)
(* analyze_node                                                            *)
(***************************************************************************)
\* recommendations[:3]
Sample_all(recommendations) == recommendations

Sample(recommendations) == SubSeq(recommendations, 1, Min(3, Len(recommendations)))

\* pd.DataFrame([]) has no columns: calculate_reallocation raises KeyError on
\* overutilized['Region'], and, inside the first iteration of the region
\* loop, on underutilized['Region'].
RaisesKeyError(overutilized, underutilized) ==
    overutilized = <<>> \/ underutilized = <<>>

AnalyzeOutput(s, recommendations) ==
    [s EXCEPT !.recommendations = recommendations,
              !.status = Status("Analysis complete", <<Len(recommendations)>>)]

\* chain.invoke raises before state["recommendations"] is assigned: the
\* except clause returns the state with the recommendations it came with.
LlmFailureOutput_stored(s, recommendations) ==
    Except([s EXCEPT !.recommendations = recommendations], "analyze", "llm")

LlmFailureOutput(s, recommendations) == Except(s, "analyze", "llm")

analyze_node ==
    /\ pc = "analyze"
    /\ LET overutilized    == state.overutilized_warehouses
           underutilized   == state.underutilized_warehouses
           recommendations == CalculateReallocation(overutilized, underutilized)
       IN \E llm_ok \in BOOLEAN :
             IF RaisesKeyError(overutilized, underutilized)
             THEN /\ llm_ok
                  /\ llm_calls' = llm_calls
                  /\ Finish("analyze", Except(state, "analyze", "KeyError"), TRUE)
             ELSE IF recommendations = <<>>
                  THEN /\ llm_ok
                       /\ llm_calls' = llm_calls
                       /\ Finish("analyze", AnalyzeOutput(state, recommendations), FALSE)
                  ELSE /\ llm_calls' = Append(llm_calls, Sample(recommendations))
                       /\ IF llm_ok
                          THEN Finish("analyze", AnalyzeOutput(state, recommendations), FALSE)
                          ELSE Finish("analyze",
                                      LlmFailureOutput(state, recommendations), TRUE)
    /\ UNCHANGED <<excel, has_email_gen, df, send_calls, reads>>

(***************************************************************************)
(* generate_email_node                                                     *)
(***************************************************************************)
RecRegion(rec) == rec.region

\* recommendations_by_region: an insertion-ordered dict, kept as a sequence
\* of (region, recs) entries.
RecommendationsByRegion(recommendations) ==
    LET rs == Unique(MapSeq(recommendations, RecRegion))
    IN [i \in 1..Len(rs) |->
          [region |-> rs[i],
           recs   |-> SelectSeq(recommendations, LAMBDA rec : rec.region = rs[i])]]

\* The html content is opaque: it is identified by what it was rendered from.
Email_last_manager(region, recs) ==
    [region               |-> region,
     manager_name         |-> recs[Len(recs)].branch_manager,
     manager_email        |-> recs[Len(recs)].branch_email,
     html_content         |-> <<region, recs, recs[Len(recs)].branch_manager>>,
     recommendation_count |-> Len(recs)]

Email(region, recs) ==
    [region               |-> region,
     manager_name         |-> recs[1].branch_manager,
     manager_email        |-> recs[1].branch_email,
     html_content         |-> <<region, recs, recs[1].branch_manager>>,
     recommendation_count |-> Len(recs)]

EmailsGenerated_always(recommendations, configured) ==
    LET groups == RecommendationsByRegion(recommendations)
    IN [i \in 1..Len(groups) |-> Email(groups[i].region, groups[i].recs)]

EmailsGenerated(recommendations, configured) ==
    LET groups == RecommendationsByRegion(recommendations)
    IN IF configured
       THEN [i \in 1..Len(groups) |-> Email(groups[i].region, groups[i].recs)]
       ELSE <<>>

GenerateOutput_reset_error(s, emails_generated) ==
    [s EXCEPT !.emails_generated = emails_generated,
              !.error  = "",
              !.status = Status("Email generation complete", <<Len(emails_generated)>>)]

GenerateOutput(s, emails_generated) ==
    [s EXCEPT !.emails_generated = emails_generated,
              !.status = Status("Email generation complete", <<Len(emails_generated)>>)]

generate_email_node ==
    /\ pc = "generate_email"
    /\ \E render_ok \in BOOLEAN :
          \* generate_html_email is only called for a region with
          \* recommendations and with an e-mail generator configured
          IF render_ok \/ ~has_email_gen \/ state.recommendations = <<>>
          THEN /\ render_ok
               /\ Finish("generate_email",
                         GenerateOutput(state, EmailsGenerated(state.recommendations,
                                                               has_email_gen)),
                         FALSE)
          ELSE Finish("generate_email", Except(state, "generate_email", "render"), TRUE)
    /\ UNCHANGED <<excel, has_email_gen, df, llm_calls, send_calls, reads>>

(***************************************************************************)
(* send_email_node                                                         *)
(***************************************************************************)
\* The entry appended to emails_sent for one e-mail. The timestamp is left
\* out. "raised" is the inner except clause of send_email_node.
SentEntry_success(email, outcome) ==
    [region        |-> email.region,
     manager_name  |-> email.manager_name,
     manager_email |-> email.manager_email,
     success       |-> TRUE]

SentEntry(email, outcome) ==
    IF outcome = "raised"
    THEN [region        |-> email.region,
          manager_name  |-> email.manager_name,
          manager_email |-> email.manager_email,
          success       |-> FALSE,
          error         |-> "send_email raised"]
    ELSE [region        |-> email.region,
          manager_name  |-> email.manager_name,
          manager_email |-> email.manager_email,
          success       |-> (outcome = "sent")]

\* for email in state.get("emails_generated", []): every e-mail is attempted
\* and gets its entry, whatever happened to the ones before it.
EmailsSent_stop_at_failure(emails, outcomes) ==
    LET failed == {i \in 1..Len(emails) : outcomes[i] # "sent"}
        last   == IF failed = {} THEN Len(emails)
                  ELSE CHOOSE i \in failed : \A j \in failed : i <= j
    IN [i \in 1..last |-> SentEntry(emails[i], outcomes[i])]

EmailsSent(emails, outcomes) ==
    [i \in 1..Len(emails) |-> SentEntry(emails[i], outcomes[i])]

\* The calls of email_gen.send_email made by the loop, with what each returned.
SendCalls(emails, outcomes) ==
    [i \in 1..Len(emails) |->
        [recipient_email |-> emails[i].manager_email,
         subject         |-> emails[i].region,
         html_content    |-> emails[i].html_content,
         outcome         |-> outcomes[i]]]

SuccessCount(emails_sent) ==
    Cardinality({i \in 1..Len(emails_sent) : emails_sent[i].success})

SendOutput_keep_status(s, emails_sent) == [s EXCEPT !.emails_sent = emails_sent]

SendOutput(s, emails_sent) ==
    [s EXCEPT !.emails_sent = emails_sent,
              !.status = Status("Email sending complete",
                                <<SuccessCount(emails_sent), Len(emails_sent)>>)]

SkipOutput(s) ==
    [s EXCEPT !.emails_sent = <<>>,
              !.status = Status("Email sending skipped - no email configuration", <<>>)]

send_email_node ==
    /\ pc = "send_email"
    /\ IF ~has_email_gen
       THEN /\ send_calls' = send_calls
            /\ Finish("send_email", SkipOutput(state), FALSE)
       ELSE \E outcomes \in [1..Len(state.emails_generated) -> SendOutcomes] :
               /\ send_calls' = send_calls \o SendCalls(state.emails_generated, outcomes)
               /\ Finish("send_email",
                         SendOutput(state, EmailsSent(state.emails_generated, outcomes)),
                         FALSE)
    /\ UNCHANGED <<excel, has_email_gen, df, llm_calls, reads>>

(***************************************************************************)
(* NetworkUtilizationAgent.run: graph.invoke(initial_state)                *)
(***************************************************************************)
Next ==
    \/ monitor_node
    \/ detect_node
    \/ analyze_node
    \/ generate_email_node
    \/ send_email_node

Spec == Init /\ [][Next]_vars

\* graph.invoke is synchronous and runs the graph to its end: no node waits
\* for anything, so a node that can run does run.
\* The same workflow run on the sheets with several regions.
WideSpec == WideInit /\ [][Next]_vars

LiveSpec == LiveInit /\ [][Next]_vars /\ WF_vars(Next)

(***************************************************************************)
(* Properties.                                                             *)
(***************************************************************************)
Failed(node) == node \in Range(failures)

Ran(node) == node \in Range(invoked)

Done == pc = "END"

\* C1: the five stages run in the fixed order monitor, detect, analyze,
\* generate_email, send_email, each exactly once, and the run then is in
\* the terminal state: at every moment the nodes invoked so far are a prefix
\* of that order and the graph is about to run the next one, and eventually
\* the graph is at its end for good with exactly the five invoked.
C1_FixedStageOrder ==
    /\ [](/\ Len(invoked) <= Len(Nodes)
          /\ \A i \in 1..Len(invoked) : invoked[i] = Nodes[i]
          /\ pc = IF Len(invoked) = Len(Nodes) THEN "END"
                  ELSE Nodes[Len(invoked) + 1])
    /\ <>[](Done /\ invoked = Nodes)

C1_Witness == Done /\ invoked = Nodes /\ failures = <<>>

\* C2: whatever fails (the data source in monitor or detect, the planner or
\* the insight generator in analyze, the renderer in generate_email), the
\* failing node turns the failure into a non-empty error and an "Error in
\* ..." status and returns; the graph goes on with the node's successor, so
\* a run in which a node failed still reaches its end with all five nodes
\* invoked.
C2_FailuresNeverAbort ==
    /\ [][failures' # failures =>
            /\ state'.error # ""
            /\ state'.status.text \in
                 {"Error in monitoring", "Error in detection", "Error in analysis",
                  "Error in email generation", "Error in email sending"}
            /\ invoked' = Append(invoked, pc)
            /\ pc' \in Range(Nodes) \cup {"END"}]_vars
    /\ (failures # <<>>) ~> (Done /\ Len(invoked) = Len(Nodes))

C2_Witness == Done /\ failures = <<"monitor", "detect", "analyze">>

C2_WitnessRender == Done /\ failures = <<"generate_email">>

\* The text each node puts into the error field when it fails.
ErrorsOf(node) ==
    CASE node = "monitor"        -> {"Monitoring error: Error loading data"}
      [] node = "detect"         -> {"Detection error: Error loading data"}
      [] node = "analyze"        -> {"Analysis error: 'Region'",
                                     "Analysis error: insight generation failed"}
      [] node = "generate_email" -> {"Email generation error: rendering failed"}
      [] node = "send_email"     -> {"Email sending error"}

\* C3 as stated: if monitor fails, the error of the final state is the
\* error captured by monitor.
C3_FirstErrorKept ==
    (Done /\ Failed("monitor")) => state.error \in ErrorsOf("monitor")

\* C3 amended: a node that succeeds leaves the error field as it is, a node
\* that fails overwrites it: the error of the final state is the error of
\* the last node that failed, so it is monitor's error exactly when monitor
\* failed and no later node did.
C3_LastErrorWins ==
    /\ [](IF failures = <<>> THEN state.error = ""
          ELSE state.error \in ErrorsOf(failures[Len(failures)]))
    /\ [][failures' = failures => state'.error = state.error]_vars

C3_Witness ==
    /\ Done
    /\ failures = <<"monitor", "detect", "analyze">>
    /\ state.error = "Analysis error: 'Region'"

\* The status each node writes when it fails.
FailureStatusOf(node) ==
    CASE node = "monitor"        -> "Error in monitoring"
      [] node = "detect"         -> "Error in detection"
      [] node = "analyze"        -> "Error in analysis"
      [] node = "generate_email" -> "Error in email generation"
      [] node = "send_email"     -> "Error in email sending"

\* C4 as stated: if a stage failed, the status of the final state
\* identifies a stage that failed.
C4_FinalStatusNamesFailure ==
    (Done /\ failures # <<>>) =>
        \E i \in 1..Len(failures) : state.status.text = FailureStatusOf(failures[i])

\* C4 amended: the status identifies the failing stage in the state that
\* the failing stage returns, but every later stage overwrites the status:
\* the status of the final state is always the one written by send_email
\* (sending complete, or sending skipped), whichever stage failed.
C4_StatusIsLastWritten ==
    /\ [][failures' # failures => state'.status.text = FailureStatusOf(pc)]_vars
    /\ [](Done => state.status.text \in
                    {"Email sending complete",
                     "Email sending skipped - no email configuration"})

C4_Witness ==
    /\ Done
    /\ Failed("monitor")
    /\ state.status.text = "Email sending complete"

\* C5: after detect, a row of the frame is in overutilized_warehouses iff
\* its utilization is strictly above the threshold and in
\* underutilized_warehouses iff it is strictly below; no row is in both and
\* a row exactly at the threshold is in neither.
C5_StrictPartition ==
    (Ran("detect") /\ ~Failed("detect")) =>
        LET over  == Range(state.overutilized_warehouses)
            under == Range(state.underutilized_warehouses)
        IN /\ \A i \in 1..Len(df.frame) :
                LET w == df.frame[i]
                    u == w.Utilization_Percentage
                IN /\ (w \in over)  <=> (u.k = "inf" \/ (u.k = "num" /\ u.v > 8500))
                   /\ (w \in under) <=> (u.k = "num" /\ u.v < 8500)
                   /\ (u.k = "num" /\ u.v = 8500) => (w \notin over /\ w \notin under)
           /\ over \cap under = {}
           /\ over \cup under \subseteq Range(df.frame)

C5_Witness ==
    /\ Ran("detect") /\ ~Failed("detect")
    /\ \E i \in 1..Len(df.frame) : df.frame[i].Utilization_Percentage = Num(8500)
    /\ state.overutilized_warehouses # <<>>
    /\ state.underutilized_warehouses # <<>>

(***************************************************************************)
(* The planner, observed in the state that analyze_node returns: the       *)
(* recommendations it stored for the sets that detect_node stored.         *)
(***************************************************************************)
Planned == pc = "generate_email" /\ ~Failed("analyze")

Warehouse(id) == CHOOSE w \in Range(df.frame) : w.Warehouse_ID = id

OverSet == Range(state.overutilized_warehouses)

UnderSet == Range(state.underutilized_warehouses)

\* The underutilized warehouses of a region, in their original order.
Peers(region) ==
    SelectSeq(state.underutilized_warehouses, LAMBDA u : u.Region = region)

\* current load minus floor(capacity * 85 / 100)
ExcessOf(w) == w.Current_Pallets - ((w.Total_Capacity_Pallets * 85) \div 100)

\* floor(capacity * 85 / 100) minus current load, where positive
PositiveAvailable(u) ==
    LET a == ((u.Total_Capacity_Pallets * 85) \div 100) - u.Current_Pallets
    IN IF a > 0 THEN a ELSE 0

RECURSIVE SumPositiveAvailable(_, _)
SumPositiveAvailable(peers, n) ==
    IF n = 0 THEN 0
    ELSE PositiveAvailable(peers[n]) + SumPositiveAvailable(peers, n - 1)

\* The recommendations out of warehouse w, and those from w into u.
RecsFrom(w) ==
    SelectSeq(state.recommendations, LAMBDA r : r.from_warehouse = w.Warehouse_ID)

RecsBetween(w, u) ==
    SelectSeq(state.recommendations,
              LAMBDA r : r.from_warehouse = w.Warehouse_ID
                         /\ r.to_warehouse = u.Warehouse_ID)

RECURSIVE SumPallets(_)
SumPallets(recs) ==
    IF recs = <<>> THEN 0 ELSE Head(recs).pallets_to_move + SumPallets(Tail(recs))

\* C6: every recommendation moves pallets between two warehouses of one
\* region, the region it names; an overutilized warehouse whose region has
\* no underutilized warehouse gets no recommendation, whatever spare
\* capacity other regions have.
C6_NoCrossRegionMoves ==
    Planned =>
        /\ \A k \in 1..Len(state.recommendations) :
              LET r == state.recommendations[k]
              IN /\ Warehouse(r.from_warehouse).Region = r.region
                 /\ Warehouse(r.to_warehouse).Region = r.region
                 /\ Warehouse(r.from_warehouse) \in OverSet
                 /\ Warehouse(r.to_warehouse) \in UnderSet
        /\ \A w \in OverSet : Peers(w.Region) = <<>> => RecsFrom(w) = <<>>

C6_Witness ==
    /\ Planned
    /\ state.recommendations # <<>>
    /\ \E w \in OverSet, u \in UnderSet :
          /\ Peers(w.Region) = <<>>
          /\ ExcessOf(w) > 0
          /\ u.Region # w.Region
          /\ PositiveAvailable(u) >= ExcessOf(w)
          /\ RecsFrom(w) = <<>>

\* C7 as stated: for every overutilized warehouse with an underutilized
\* peer in its region, the pallets moved out of it are at most its excess
\* and equal min(excess, sum of the positive available capacities of the
\* peers).
C7_MovedIsMinOfExcessAndAvailable ==
    Planned =>
        \A w \in OverSet :
            Peers(w.Region) # <<>> =>
                /\ SumPallets(RecsFrom(w)) <= ExcessOf(w)
                /\ SumPallets(RecsFrom(w)) =
                      Min(ExcessOf(w),
                          SumPositiveAvailable(Peers(w.Region), Len(Peers(w.Region))))

\* C7 amended: the statement holds for an overutilized warehouse whose
\* excess is positive; one whose excess is zero or negative (its listed
\* utilization is above the threshold, its load is not above the target)
\* is skipped and nothing is moved out of it. A peer without available
\* capacity is passed over and the peers after it are still used.
C7_MovedIsMinForPositiveExcess ==
    Planned =>
        \A w \in OverSet :
            Peers(w.Region) # <<>> =>
                IF ExcessOf(w) > 0
                THEN /\ SumPallets(RecsFrom(w)) <= ExcessOf(w)
                     /\ SumPallets(RecsFrom(w)) =
                           Min(ExcessOf(w),
                               SumPositiveAvailable(Peers(w.Region),
                                                    Len(Peers(w.Region))))
                ELSE RecsFrom(w) = <<>>

\* An overutilized warehouse with positive excess whose first peer is full
\* and whose second peer takes the whole excess.
C7_Witness ==
    /\ Planned
    /\ \E w \in OverSet :
          /\ ExcessOf(w) > 0
          /\ Len(Peers(w.Region)) >= 2
          /\ PositiveAvailable(Peers(w.Region)[1]) = 0
          /\ PositiveAvailable(Peers(w.Region)[2]) > 0
          /\ SumPallets(RecsFrom(w)) = ExcessOf(w)

\* C8: a region with exactly one overutilized warehouse of excess e > 0 and
\* exactly one underutilized warehouse of available capacity a >= e gets
\* exactly one recommendation, from the former to the latter, of e pallets.
C8_SingleMoveOfExcess ==
    Planned =>
        \A w \in OverSet, u \in UnderSet :
            ( /\ u.Region = w.Region
              /\ \A w2 \in OverSet : w2.Region = w.Region => w2 = w
              /\ \A u2 \in UnderSet : u2.Region = w.Region => u2 = u
              /\ ExcessOf(w) > 0
              /\ PositiveAvailable(u) >= ExcessOf(w) )
            => LET recs == SelectSeq(state.recommendations,
                                     LAMBDA r : r.region = w.Region)
               IN /\ Len(recs) = 1
                  /\ recs[1].from_warehouse = w.Warehouse_ID
                  /\ recs[1].to_warehouse = u.Warehouse_ID
                  /\ recs[1].pallets_to_move = ExcessOf(w)

\* Scenario 1: capacity 100 / load 95 and capacity 100 / load 50 in one
\* region give one recommendation of 10 pallets.
C8_Witness ==
    /\ Planned
    /\ Len(df.frame) = 2
    /\ df.frame[1].Current_Pallets = 95 /\ df.frame[1].Total_Capacity_Pallets = 100
    /\ df.frame[2].Current_Pallets = 50 /\ df.frame[2].Total_Capacity_Pallets = 100
    /\ df.frame[1].Region = df.frame[2].Region
    /\ Len(state.recommendations) = 1
    /\ state.recommendations[1].from_warehouse = 1
    /\ state.recommendations[1].to_warehouse = 2
    /\ state.recommendations[1].pallets_to_move = 10

\* C9: what an overutilized warehouse w moves into its j-th peer depends on
\* w's own excess and on the peers' original loads only, never on what
\* other overutilized warehouses already moved there: it is
\* min(excess left after the peers before j, available capacity of peer j),
\* in at most one recommendation, so that the moves into one peer can add
\* up to more than its available capacity.
C9_AvailableNotDecremented ==
    Planned =>
        \A w \in OverSet :
            LET peers == Peers(w.Region)
            IN \A j \in 1..Len(peers) :
                  LET left == ExcessOf(w) - SumPositiveAvailable(peers, j - 1)
                      recs == RecsBetween(w, peers[j])
                  IN /\ Len(recs) <= 1
                     /\ SumPallets(recs) =
                           IF left <= 0 THEN 0
                           ELSE Min(left, PositiveAvailable(peers[j]))

\* Scenario 3: two overutilized warehouses of excess 8 each and one
\* underutilized warehouse of available capacity 10 in one region: two
\* recommendations of 8 pallets each into it.
C9_Witness ==
    /\ Planned
    /\ Len(state.overutilized_warehouses) = 2
    /\ Len(state.underutilized_warehouses) = 1
    /\ \A w \in OverSet : ExcessOf(w) = 8
    /\ \A u \in UnderSet : PositiveAvailable(u) = 10
    /\ Len(state.recommendations) = 2
    /\ \A k \in 1..2 : /\ state.recommendations[k].pallets_to_move = 8
                       /\ Warehouse(state.recommendations[k].to_warehouse) \in UnderSet
    /\ state.recommendations[1].from_warehouse # state.recommendations[2].from_warehouse

\* C10: the nodes after analyze leave the recommendations as analyze stored
\* them and send_email leaves the e-mails as generate_email stored them: the
\* final state holds each recommendation of the planner once and each
\* generated e-mail once.
C10_ListsKeptOnce ==
    (Done /\ ~Failed("analyze") /\ ~Failed("generate_email")) =>
        /\ state.recommendations =
              CalculateReallocation(state.overutilized_warehouses,
                                    state.underutilized_warehouses)
        /\ state.emails_generated =
              EmailsGenerated(CalculateReallocation(state.overutilized_warehouses,
                                                    state.underutilized_warehouses),
                              has_email_gen)

(***************************************************************************)
(* The notification stages, observed on the sheets with several regions.   *)
(***************************************************************************)
\* C11: send_email_node calls send_email once for every e-mail it finds in
\* the state, in their order, and stores exactly one entry per e-mail in
\* the same order, whatever the calls returned: a failed delivery does not
\* keep the later e-mails from being attempted.
C11_OneAttemptAndResultPerPayload ==
    [][(pc = "send_email" /\ has_email_gen) =>
          LET emails == state.emails_generated
              sent   == state'.emails_sent
              calls  == send_calls'
          IN /\ Len(calls) = Len(emails)
             /\ Len(sent) = Len(emails)
             /\ \A i \in 1..Len(emails) :
                   /\ calls[i].recipient_email = emails[i].manager_email
                   /\ calls[i].html_content = emails[i].html_content
                   /\ sent[i].region = emails[i].region
                   /\ sent[i].manager_name = emails[i].manager_name
                   /\ sent[i].manager_email = emails[i].manager_email]_vars

\* Three e-mails, the first delivery fails, the other two are still made.
C11_Witness ==
    /\ Done
    /\ Len(send_calls) = 3
    /\ send_calls[1].outcome = "failed"
    /\ send_calls[2].outcome = "sent"
    /\ send_calls[3].outcome = "sent"
    /\ Len(state.emails_sent) = 3

\* C12 as stated: the success flag of an entry is true iff the delivery
\* succeeded, and every entry with success = FALSE carries an error message.
C12_FailedResultsCarryError ==
    Done =>
        /\ Len(state.emails_sent) = Len(send_calls)
        /\ \A i \in 1..Len(state.emails_sent) :
              /\ state.emails_sent[i].success <=> (send_calls[i].outcome = "sent")
              /\ ~state.emails_sent[i].success => "error" \in DOMAIN state.emails_sent[i]

\* C12 amended: the success flag of an entry is true iff the delivery
\* succeeded; an entry gets an error message only when send_email raises,
\* and send_email catches every exception and returns False instead, so the
\* entry of a failed delivery has success = FALSE and no error message.
C12_SuccessFlagWithoutError ==
    Done =>
        /\ Len(state.emails_sent) = Len(send_calls)
        /\ \A i \in 1..Len(state.emails_sent) :
              /\ state.emails_sent[i].success <=> (send_calls[i].outcome = "sent")
              /\ "error" \notin DOMAIN state.emails_sent[i]

\* Three e-mails, the second delivery fails.
C12_Witness ==
    /\ Done
    /\ Len(state.emails_sent) = 3
    /\ send_calls[2].outcome = "failed"
    /\ state.emails_sent[1].success
    /\ ~state.emails_sent[2].success
    /\ state.emails_sent[3].success

\* The position of the first recommendation of a region.
FirstOfRegion(recs, region) ==
    CHOOSE k \in 1..Len(recs) :
        /\ recs[k].region = region
        /\ \A l \in 1..(k - 1) : recs[l].region # region

\* What C13 says of the e-mails built from the recommendations recs.
OnePayloadPerRegion(recs, emails) ==
    /\ {emails[i].region : i \in 1..Len(emails)} = {recs[k].region : k \in 1..Len(recs)}
    /\ \A i, j \in 1..Len(emails) :
          i < j => /\ emails[i].region # emails[j].region
                   /\ FirstOfRegion(recs, emails[i].region)
                        < FirstOfRegion(recs, emails[j].region)
    /\ \A i \in 1..Len(emails) :
          LET first == recs[FirstOfRegion(recs, emails[i].region)]
          IN /\ emails[i].recommendation_count =
                   Cardinality({k \in 1..Len(recs) : recs[k].region = emails[i].region})
             /\ emails[i].manager_name = first.branch_manager
             /\ emails[i].manager_email = first.branch_email

\* C13 as stated: generate_email_node builds one e-mail for each region with
\* a recommendation and no other, in the order in which the regions first
\* appear among the recommendations, with the region's number of
\* recommendations and the manager of the region's first recommendation.
C13_OnePayloadPerRegion ==
    [][(pc = "generate_email" /\ failures' = failures) =>
          OnePayloadPerRegion(state.recommendations, state'.emails_generated)]_vars

\* C13 amended: this holds when an e-mail generator is configured; without
\* one, generate_email_node builds no e-mail at all, whatever the
\* recommendations.
C13_OnePayloadPerRegionIfConfigured ==
    [][(pc = "generate_email" /\ failures' = failures) =>
          IF has_email_gen
          THEN OnePayloadPerRegion(state.recommendations, state'.emails_generated)
          ELSE state'.emails_generated = <<>>]_vars

\* Three e-mails, one of them for a region whose two recommendations come
\* from the warehouses of two managers.
C13_Witness ==
    /\ pc = "send_email"
    /\ Len(state.emails_generated) = 3
    /\ \E i \in 1..3 :
          /\ state.emails_generated[i].recommendation_count = 2
          /\ \E k \in 1..Len(state.recommendations) :
                /\ state.recommendations[k].region = state.emails_generated[i].region
                /\ state.recommendations[k].branch_manager
                     # state.emails_generated[i].manager_name

(***************************************************************************)
(* Loading, detection and grouping.                                        *)
(***************************************************************************)
\* C14: a sheet row whose capacity is zero or negative makes load_data fail
\* when the utilization is derived, so that monitor records an error and
\* the row never reaches the over- or underutilized set.
C14_NonPositiveCapacityRejected ==
    (~excel.has_util_column
     /\ \E i \in 1..Len(excel.rows) : excel.rows[i].Total_Capacity_Pallets <= 0)
    => /\ Ran("monitor") => Failed("monitor")
       /\ \A w \in OverSet \cup UnderSet : w.Total_Capacity_Pallets > 0

FirstRowOfRegion(frame, region) ==
    CHOOSE i \in 1..Len(frame) :
        /\ frame[i].Region = region
        /\ \A j \in 1..(i - 1) : frame[j].Region # region

\* C16: the region map stored by detect partitions the whole frame: every
\* row is in exactly one group, at one place, and it is the group of its
\* region; no group holds anything else; the groups come in the order in
\* which their regions first appear in the frame and the rows of a group in
\* their original order (ids number the rows); the frame itself is the
\* sheet's rows as before.
C16_GroupingPartitionsInOrder ==
    (Ran("detect") /\ ~Failed("detect")) =>
        LET groups == state.regions
            frame  == df.frame
        IN /\ \A i \in 1..Len(frame) :
                 Cardinality({<<g, k>> \in (1..Len(groups)) \X (1..Len(frame)) :
                                 k <= Len(groups[g].rows) /\ groups[g].rows[k] = frame[i]}) = 1
           /\ \A g \in 1..Len(groups) :
                 /\ groups[g].rows # <<>>
                 /\ \A k \in 1..Len(groups[g].rows) :
                       /\ groups[g].rows[k] \in Range(frame)
                       /\ groups[g].rows[k].Region = groups[g].region
                 /\ \A k, l \in 1..Len(groups[g].rows) :
                       k < l => groups[g].rows[k].Warehouse_ID < groups[g].rows[l].Warehouse_ID
           /\ \A g, h \in 1..Len(groups) :
                 g < h => FirstRowOfRegion(frame, groups[g].region)
                            < FirstRowOfRegion(frame, groups[h].region)
           /\ Len(frame) = Len(excel.rows)
           /\ \A i \in 1..Len(frame) :
                 /\ frame[i].Warehouse_ID = i
                 /\ frame[i].Region = excel.rows[i].Region
                 /\ frame[i].Current_Pallets = excel.rows[i].Current_Pallets

\* Three regions whose rows are interleaved in the sheet.
C16_Witness ==
    /\ Ran("detect") /\ ~Failed("detect")
    /\ Len(state.regions) = 3
    /\ \E g \in 1..3 :
          /\ Len(state.regions[g].rows) >= 2
          /\ state.regions[g].rows[2].Warehouse_ID > state.regions[g].rows[1].Warehouse_ID + 1

\* C17: the classifier keeps the order of its input and gives the same
\* outputs when run again: at every point after detect, the stored
\* overutilized (underutilized) rows are exactly the rows of the frame above
\* (below) the threshold, in the frame's order, and so have increasing ids.
C17_ClassifierKeepsOrder ==
    (Ran("detect") /\ ~Failed("detect")) =>
        LET over  == state.overutilized_warehouses
            under == state.underutilized_warehouses
            Above(w) == LET u == w.Utilization_Percentage
                        IN u.k = "inf" \/ (u.k = "num" /\ u.v > 8500)
            Below(w) == LET u == w.Utilization_Percentage
                        IN u.k = "num" /\ u.v < 8500
        IN /\ over  = SelectSeq(df.frame, Above)
           /\ under = SelectSeq(df.frame, Below)
           /\ \A k, l \in 1..Len(over) :
                 k < l => over[k].Warehouse_ID < over[l].Warehouse_ID
           /\ \A k, l \in 1..Len(under) :
                 k < l => under[k].Warehouse_ID < under[l].Warehouse_ID

\* An underutilized row between two overutilized rows, after the whole run.
C17_Witness ==
    /\ Done /\ ~Failed("detect")
    /\ Len(state.overutilized_warehouses) = 2
    /\ Len(state.underutilized_warehouses) = 1
    /\ state.overutilized_warehouses[1].Warehouse_ID
         < state.underutilized_warehouses[1].Warehouse_ID
    /\ state.underutilized_warehouses[1].Warehouse_ID
         < state.overutilized_warehouses[2].Warehouse_ID

\* The rank of a region: where it first appears among the overutilized rows.
RegionRank(region) ==
    CHOOSE i \in 1..Len(state.overutilized_warehouses) :
        /\ state.overutilized_warehouses[i].Region = region
        /\ \A j \in 1..(i - 1) : state.overutilized_warehouses[j].Region # region

\* C18: the plan is ordered by region (regions in the order of their first
\* overutilized row), then by the source's place in the input, then by the
\* destination's place in the input (ids number the input rows).
C18_PlanOrderedRegionMajor ==
    Planned =>
        LET recs == state.recommendations
        IN \A k, l \in 1..Len(recs) :
              k < l =>
                 \/ RegionRank(recs[k].region) < RegionRank(recs[l].region)
                 \/ /\ recs[k].region = recs[l].region
                    /\ recs[k].from_warehouse < recs[l].from_warehouse
                 \/ /\ recs[k].region = recs[l].region
                    /\ recs[k].from_warehouse = recs[l].from_warehouse
                    /\ recs[k].to_warehouse < recs[l].to_warehouse

\* Two regions interleaved in the input, one with two sources and one with
\* two destinations of one source.
C18_Witness ==
    /\ Planned
    /\ LET recs == state.recommendations
       IN /\ \E k \in 1..(Len(recs) - 1) :
                /\ recs[k].region # recs[k + 1].region
                /\ recs[k].to_warehouse > recs[k + 1].from_warehouse
          /\ \E k \in 1..(Len(recs) - 1) :
                /\ recs[k].from_warehouse = recs[k + 1].from_warehouse
                /\ recs[k].to_warehouse < recs[k + 1].to_warehouse
          /\ \E k \in 1..(Len(recs) - 1) :
                /\ recs[k].region = recs[k + 1].region
                /\ recs[k].from_warehouse < recs[k + 1].from_warehouse

\* C19: every recommendation moves at least one pallet, at most what is left
\* of its source's excess after the earlier recommendations out of that
\* source, and at most the room of its destination below the threshold.
C19_MoveWithinExcessAndRoom ==
    Planned =>
        LET recs == state.recommendations
        IN \A k \in 1..Len(recs) :
              LET source  == Warehouse(recs[k].from_warehouse)
                  dest    == Warehouse(recs[k].to_warehouse)
                  earlier == SelectSeq(SubSeq(recs, 1, k - 1),
                                LAMBDA r : r.from_warehouse = recs[k].from_warehouse)
              IN /\ recs[k].pallets_to_move >= 1
                 /\ recs[k].pallets_to_move <= ExcessOf(source) - SumPallets(earlier)
                 /\ recs[k].pallets_to_move
                       <= ((dest.Total_Capacity_Pallets * 85) \div 100) - dest.Current_Pallets

\* One source whose first move is cut by the destination's room and whose
\* second move is cut by what is left of the excess.
C19_Witness ==
    /\ Planned
    /\ \E k \in 1..(Len(state.recommendations) - 1) :
          LET r1 == state.recommendations[k]
              r2 == state.recommendations[k + 1]
              d2 == Warehouse(r2.to_warehouse)
          IN /\ r1.from_warehouse = r2.from_warehouse
             /\ r1.pallets_to_move < ExcessOf(Warehouse(r1.from_warehouse))
             /\ r2.pallets_to_move
                   < ((d2.Total_Capacity_Pallets * 85) \div 100) - d2.Current_Pallets

\* What the planner returns to analyze, where it returns at all.
PlannerReturns ==
    IF state.overutilized_warehouses = <<>> \/ state.underutilized_warehouses = <<>>
    THEN <<>>
    ELSE CalculateReallocation(state.overutilized_warehouses,
                               state.underutilized_warehouses)

\* C20: the insight generator is called at most once in a run, by analyze
\* only, when and only when the planner returned a recommendation, and with
\* the first min(3, n) of the n recommendations; when the call fails,
\* analyze records an analysis error and the run goes on to the next stage.
C20_InsightOnceOnFirstThree ==
    /\ [](Len(llm_calls) <= 1)
    /\ [][ /\ pc # "analyze" => llm_calls' = llm_calls
           /\ pc = "analyze" =>
                 LET recs == PlannerReturns
                     n    == Len(recs)
                 IN /\ (llm_calls' # llm_calls) <=> (n >= 1)
                    /\ n >= 1 =>
                          /\ llm_calls' = <<[i \in 1..(IF n < 3 THEN n ELSE 3) |-> recs[i]]>>
                          /\ pc' = "generate_email"
                          /\ "analyze" \in Range(failures') =>
                                /\ state'.error = "Analysis error: insight generation failed"
                                /\ state'.recommendations = <<>>
                          /\ "analyze" \notin Range(failures') =>
                                /\ state'.recommendations = recs
                                /\ state'.error = state.error ]_vars

\* A plan of four recommendations, an insight call that failed on its first
\* three, and a run that went to its end.
C20_Witness ==
    /\ Done /\ Failed("analyze")
    /\ Len(PlannerReturns) = 4
    /\ Len(llm_calls) = 1
    /\ Len(llm_calls[1]) = 3

(***************************************************************************)
(* Errors and configuration.                                               *)
(***************************************************************************)
\* C21: when the insight call fails after the planner returned a non-empty
\* plan, the plan is not stored: from then on the recommendations of the
\* state are empty, no e-mail is generated and send_email is never called.
C21_FailedInsightDropsPlan ==
    (Failed("analyze") /\ llm_calls # <<>>) =>
        /\ PlannerReturns # <<>>
        /\ state.recommendations = <<>>
        /\ state.emails_generated = <<>>
        /\ state.emails_sent = <<>>
        /\ send_calls = <<>>

\* A run with an e-mail generator that went to its end after the insight
\* call failed on a plan for two regions.
C21_Witness ==
    /\ Done /\ has_email_gen
    /\ Failed("analyze") /\ llm_calls # <<>>
    /\ \E k, l \in 1..Len(PlannerReturns) :
          PlannerReturns[k].region # PlannerReturns[l].region

\* C22: the error is empty before the first stage, a non-empty error never
\* becomes empty again, and at the end of the run the error is empty
\* exactly when no stage failed.
C22_ErrorNeverCleared ==
    /\ [](invoked = <<>> => state.error = "")
    /\ [][state.error # "" => state'.error # ""]_vars
    /\ [](Done => (state.error = "" <=> failures = <<>>))

\* The error of monitor, still there after four stages that did not fail.
C22_Witness ==
    /\ Done
    /\ failures = <<"monitor">>
    /\ state.error # ""
    /\ state.emails_generated # <<>>

\* C23: without an e-mail generator no e-mail is generated, send_email is
\* never called, the list of sent e-mails is empty, and neither
\* generate_email nor send_email fails or touches the error.
C23_NoChannelNoNotifications ==
    /\ [](~has_email_gen =>
            /\ state.emails_generated = <<>>
            /\ state.emails_sent = <<>>
            /\ send_calls = <<>>
            /\ ~Failed("generate_email")
            /\ ~Failed("send_email"))
    /\ [][(~has_email_gen /\ pc \in {"generate_email", "send_email"})
            => state'.error = state.error]_vars

\* A finished run without an e-mail generator whose plan covers two regions.
C23_Witness ==
    /\ Done /\ ~has_email_gen
    /\ \E k, l \in 1..Len(state.recommendations) :
          state.recommendations[k].region # state.recommendations[l].region

\* The room of a row below the threshold, as it is.
RoomOf(u) == ((u.Total_Capacity_Pallets * 85) \div 100) - u.Current_Pallets

\* C24: with the utilization derived from integer load and capacity, every
\* overutilized row of positive capacity has an excess of at least one
\* pallet, so that it is planned whenever its region has a row with room;
\* an underutilized row whose room is zero gets no recommendation.
C24_OverHasExcessFullUnderSkipped ==
    (Planned /\ ~excel.has_util_column) =>
        /\ \A w \in OverSet :
              w.Total_Capacity_Pallets > 0 =>
                 /\ ExcessOf(w) >= 1
                 /\ (\E u \in UnderSet : u.Region = w.Region /\ RoomOf(u) > 0)
                       => RecsFrom(w) # <<>>
        /\ \A u \in UnderSet :
              RoomOf(u) = 0 =>
                 \A k \in 1..Len(state.recommendations) :
                    state.recommendations[k].to_warehouse # u.Warehouse_ID

\* An underutilized row without room next to a planned move of its region.
C24_Witness ==
    /\ Planned /\ ~excel.has_util_column
    /\ \E u \in UnderSet :
          /\ RoomOf(u) = 0
          /\ \E w \in OverSet :
                /\ w.Region = u.Region
                /\ w.Total_Capacity_Pallets > 0
                /\ w.Warehouse_ID < u.Warehouse_ID
                /\ RecsFrom(w) # <<>>

====
